---- MODULE Spec2Model ----
(***************************************************************************)
(* The Of-The-Day plugin (manager.py): the day resolver (update,           *)
(* _load_todays_items), the rotation scheduler (display) and the text      *)
(* wrapper (_wrap_text), as a state machine over the plugin's fields.      *)
(* Time is time.time() in whole seconds, the date is date.today().         *)
(***************************************************************************)
EXTENDS Integers, Sequences, FiniteSets, TLC

VARIABLES
    \* configuration read in __init__, and the categories whose data file
    \* __init__ could not load
    categories, category_order, load_failures,
    update_interval, display_rotate_interval, subtitle_rotate_interval,
    \* plugin state
    data_files, current_day, current_items,
    current_category_index, rotation_state,
    last_update, last_rotation_time, last_category_rotation_time,
    \* what the last display() call put on the matrix, and whether an
    \* exception left display()
    frame, propagated,
    \* the host's clock and calendar
    now, today,
    \* history: whether update() has been called since the date last changed,
    \* the time of the last display() call, and the categories rendered so
    \* far (one entry per visit)
    update_called, last_tick, visits,
    \* a call of the text wrapper: where it stands, its arguments, its result
    \* and (history) which result lines were made by cutting a word
    wrap_pc, text, max_width, max_lines, lines, cut_lines,
    \* a call of _draw_bdf_text with a bitmap font: where it stands, its
    \* arguments, the pixels drawn with draw.point and (history) the value of
    \* current_x before each character and after the last
    draw_pc, draw_args, plotted, cursors,
    \* a call of _display_title or _display_content: where it stands, the
    \* entry it is given and the texts it lays out
    view_pc, item_data, shown,
    \* config/config.json as the configuration scripts read and write it,
    \* and the last script run: its operation, its category_name and what
    \* it reported
    config_json, script_run

cfgVars == <<categories, category_order, load_failures, update_interval,
             display_rotate_interval, subtitle_rotate_interval>>
dayVars == <<data_files, current_day, current_items, last_update>>
rotVars == <<current_category_index, rotation_state,
             last_category_rotation_time, last_rotation_time>>
outVars == <<frame, propagated>>
envVars == <<now, today>>
tickVars == <<last_tick, visits>>
histVars == <<update_called>>
wrapVars == <<wrap_pc, text, max_width, max_lines, lines, cut_lines>>
drawVars == <<draw_pc, draw_args, plotted, cursors>>
viewVars == <<view_pc, item_data, shown>>
fileVars == <<config_json, script_run>>
vars == <<cfgVars, dayVars, rotVars, outVars, envVars, tickVars, histVars,
          wrapVars,
                   drawVars, viewVars,
                   fileVars>>

----------------------------------------------------------------------------
(* Bounds of the model *)

\* time.time() at construction; large enough that the first update() is
\* never throttled (last_update starts at 0 and the clock is epoch seconds)
StartTime == 4
\* seconds the clock may advance after construction
MaxElapsed == 4
\* seconds the clock may advance in the rotation-fairness specification
MaxElapsedRot == 12
\* day of year at construction
FirstDay == 100
\* number of midnights that may pass
MaxMidnights == 1

----------------------------------------------------------------------------
(* Python helpers *)

\* dict.get(key, default)
Get(d, key, default) == IF key \in DOMAIN d THEN d[key] ELSE default

Digits == <<"0", "1", "2", "3", "4", "5", "6", "7", "8", "9">>

\* str(n) of a non-negative int, as its sequence of decimal digits
RECURSIVE str(_)
str(n) == IF n < 10 THEN <<Digits[n + 1]>>
          ELSE str(n \div 10) \o <<Digits[(n % 10) + 1]>>

\* current_day before the first load (None)
NoDate == [year |-> 0, yday |-> 0]

\* date.timetuple().tm_yday
tm_yday(d) == d.yday

\* the date after d (the model stays inside one year)
NextDate(d) == [d EXCEPT !.yday = d.yday + 1]

----------------------------------------------------------------------------
(* Configuration and data files the plugin can be constructed with *)

Cats == {"a", "b", "c"}

\* category_order: every category listed; one category not listed
CategoryOrders == {<<"a", "b", "c">>, <<"b", "a">>}

ModelDays == FirstDay .. (FirstDay + MaxMidnights)

\* the empty dict
EmptyDict == [k \in {} |-> TRUE]

\* a dataset: day key -> entry, here with the keys of the days in ds
Dataset(c, ds) == [k \in {str(d) : d \in ds} |-> <<c, k>>]

\* what a data file can hold: nothing (no such file), text that is not
\* JSON, a dataset with an entry for every day, or for the first day only
FileContents(c) ==
    {[status |-> "missing", data |-> EmptyDict],
     [status |-> "malformed", data |-> EmptyDict],
     [status |-> "json", data |-> Dataset(c, ModelDays)],
     [status |-> "json", data |-> Dataset(c, {FirstDay})]}

\* the configurations of the categories: "a" has no 'enabled' key (enabled
\* by default), "c" is enabled, "b" is enabled or disabled
CategoryChoices ==
    {[c \in Cats |-> IF c = "a" THEN [data_file |-> c]
                     ELSE [enabled |-> (c # "b" \/ b_enabled), data_file |-> c]]
       : b_enabled \in BOOLEAN}

DiskChoices ==
    {d \in [Cats -> UNION {FileContents(c) : c \in Cats}] :
        \A c \in Cats : d[c] \in FileContents(c)}

UpdateIntervals == {2}
DisplayRotateIntervals == {2, 3}
SubtitleRotateIntervals == {1, 2, 3}

----------------------------------------------------------------------------
(* Day resolver *)

\* categories.get(cat, {}).get('enabled', True)
is_enabled(cat) == Get(Get(categories, cat, EmptyDict), "enabled", TRUE)

\* _load_data_files: the enabled categories with a data file named that is
\* not found, cannot be read or does not parse (each logged and skipped)
failed_loads(cfg, disk) ==
    {c \in DOMAIN cfg :
        /\ Get(cfg[c], "enabled", TRUE)
        /\ "data_file" \in DOMAIN cfg[c]
        /\ disk[cfg[c].data_file].status # "json"}

\* the categories in the order the configuration lists them
ConfigOrder == <<"a", "b", "c">>

\* (mutant) a loader that gives up at the first data file it cannot load
_load_data_files_stopping(cfg, disk) ==
    LET ok(c) == /\ Get(cfg[c], "enabled", TRUE)
                 /\ "data_file" \in DOMAIN cfg[c]
                 /\ disk[cfg[c].data_file].status = "json"
        loaded == {c \in DOMAIN cfg :
                     /\ ok(c)
                     /\ \A i, j \in 1 .. Len(ConfigOrder) :
                           (i < j /\ ConfigOrder[j] = c)
                              => ConfigOrder[i] \notin failed_loads(cfg, disk)}
    IN  [c \in loaded |-> disk[cfg[c].data_file].data]

\* _load_data_files: the datasets of the enabled categories whose data file
\* is named, found and parses; every other category is skipped
_load_data_files(cfg, disk) ==
    LET loaded == {c \in DOMAIN cfg :
                     /\ Get(cfg[c], "enabled", TRUE)
                     /\ "data_file" \in DOMAIN cfg[c]
                     /\ disk[cfg[c].data_file].status = "json"}
    IN  [c \in loaded |-> disk[cfg[c].data_file].data]

\* (mutant) the day key counted from 0 instead of from 1
todays_entries_zero_based(files, d) ==
    LET day_key == str(tm_yday(d) - 1)
    IN  [c \in {x \in DOMAIN files : day_key \in DOMAIN files[x]}
           |-> files[c][day_key]]

\* the entries of the loaded datasets for the day of year of date d
todays_entries(files, d) ==
    LET day_key == str(tm_yday(d))
    IN  [c \in {x \in DOMAIN files : day_key \in DOMAIN files[x]}
           |-> files[c][day_key]]

\* (mutant) a reload that adds today's entries to the cached ones instead of
\* rebuilding the dict
_load_todays_items_merging(day, items, files, d) ==
    IF day = d /\ DOMAIN items # {}
    THEN [day |-> day, items |-> items]
    ELSE [day |-> d, items |-> todays_entries(files, d) @@ items]

\* _load_todays_items: [day, items] after the call
_load_todays_items(day, items, files, d) ==
    IF day = d /\ DOMAIN items # {}
    THEN [day |-> day, items |-> items]
    ELSE [day |-> d, items |-> todays_entries(files, d)]

\* (mutant) an update() that drops the cache when it is throttled
update_dropping_cache ==
    /\ IF now - last_update < update_interval
       THEN /\ current_items' = EmptyDict
            /\ current_day' = NoDate
            /\ UNCHANGED last_update
       ELSE /\ last_update' = now
            /\ IF current_day # today
               THEN LET r == _load_todays_items(current_day, current_items,
                                                data_files, today)
                    IN  /\ current_day' = r.day
                        /\ current_items' = r.items
               ELSE UNCHANGED <<current_day, current_items>>
    /\ UNCHANGED <<cfgVars, data_files, rotVars, outVars, envVars,
                   tickVars, wrapVars,
                   drawVars, viewVars,
                   fileVars>>

\* (mutant) an update() that restarts the rotation when it reloads
update_restarting_rotation ==
    /\ IF now - last_update < update_interval
       THEN UNCHANGED <<last_update, current_day, current_items, rotVars>>
       ELSE /\ last_update' = now
            /\ IF current_day # today
               THEN LET r == _load_todays_items(current_day, current_items,
                                                data_files, today)
                    IN  /\ current_day' = r.day
                        /\ current_items' = r.items
                        /\ current_category_index' = 0
                        /\ rotation_state' = 0
                        /\ last_category_rotation_time' = now
                        /\ last_rotation_time' = now
               ELSE UNCHANGED <<current_day, current_items, rotVars>>
    /\ UNCHANGED <<cfgVars, data_files, outVars, envVars, tickVars, wrapVars,
                   drawVars, viewVars,
                   fileVars>>

\* update(): throttled by update_interval, then reloads on a new date
update ==
    /\ IF now - last_update < update_interval
       THEN UNCHANGED <<last_update, current_day, current_items>>
       ELSE /\ last_update' = now
            /\ IF current_day # today
               THEN LET r == _load_todays_items(current_day, current_items,
                                                data_files, today)
                    IN  /\ current_day' = r.day
                        /\ current_items' = r.items
               ELSE UNCHANGED <<current_day, current_items>>
    /\ UNCHANGED <<cfgVars, data_files, rotVars, outVars, envVars,
                   tickVars, wrapVars,
                   drawVars, viewVars,
                   fileVars>>

\* (mutant) a cleanup() that keeps the loaded datasets
cleanup_keeping_data_files ==
    /\ current_items' = EmptyDict
    /\ UNCHANGED <<cfgVars, data_files, current_day, last_update, rotVars,
                   outVars, envVars, tickVars, histVars, wrapVars, drawVars,
                   viewVars, fileVars>>

\* cleanup()
cleanup ==
    /\ current_items' = EmptyDict
    /\ data_files' = EmptyDict
    /\ UNCHANGED <<cfgVars, current_day, last_update, rotVars, outVars,
                   envVars, tickVars, histVars, wrapVars,
                   drawVars, viewVars,
                   fileVars>>

----------------------------------------------------------------------------
(* Rotation scheduler *)

Frame(view, cat) == [view |-> view, category |-> cat]

\* (mutant) the placeholder is drawn but never pushed to the matrix
_display_no_data_not_shown == Frame("blank", "")

\* _display_no_data
_display_no_data == Frame("no_data", "")

\* _display_error
_display_error == Frame("error", "")

\* (mutant) the eligible categories taken from the configuration, whether
\* category_order lists them or not
enabled_categories_unlisted ==
    SelectSeq(ConfigOrder,
              LAMBDA cat : cat \in DOMAIN current_items /\ is_enabled(cat))

\* the categories of category_order that have an item today and are enabled
enabled_categories ==
    SelectSeq(category_order,
              LAMBDA cat : cat \in DOMAIN current_items /\ is_enabled(cat))

\* (mutant) a category timer that catches up on every interval elapsed
rotate_categories_catching_up(t, n) ==
    IF t - last_category_rotation_time >= display_rotate_interval
    THEN [index |-> (current_category_index
                      + ((t - last_category_rotation_time)
                           \div display_rotate_interval)) % n,
          category_time |-> t, state |-> 0, time |-> t]
    ELSE [index |-> current_category_index,
          category_time |-> last_category_rotation_time,
          state |-> rotation_state, time |-> last_rotation_time]

\* (mutant) a category timer that steps over the next category
rotate_categories_skipping(t, n) ==
    IF t - last_category_rotation_time >= display_rotate_interval
    THEN [index |-> (current_category_index + 2) % n,
          category_time |-> t, state |-> 0, time |-> t]
    ELSE [index |-> current_category_index,
          category_time |-> last_category_rotation_time,
          state |-> rotation_state, time |-> last_rotation_time]

\* (mutant) a category timer that leaves the mode timer running
rotate_categories_keeping_mode_timer(t, n) ==
    IF t - last_category_rotation_time >= display_rotate_interval
    THEN [index |-> (current_category_index + 1) % n,
          category_time |-> t, state |-> 0, time |-> last_rotation_time]
    ELSE [index |-> current_category_index,
          category_time |-> last_category_rotation_time,
          state |-> rotation_state, time |-> last_rotation_time]

\* "Rotate categories": the rotation fields after the category timer is
\* checked at time t with n enabled categories
rotate_categories(t, n) ==
    IF t - last_category_rotation_time >= display_rotate_interval
    THEN [index |-> (current_category_index + 1) % n,
          category_time |-> t, state |-> 0, time |-> t]
    ELSE [index |-> current_category_index,
          category_time |-> last_category_rotation_time,
          state |-> rotation_state, time |-> last_rotation_time]

\* (mutant) a mode timer that toggles on every tick
rotate_content_every_tick(r, t) ==
    [r EXCEPT !.state = (r.state + 1) % 2, !.time = t]

\* (mutant) a mode timer compared against the timestamp from before the
\* category timer's reset
rotate_content_stale_time(r, t) ==
    IF t - last_rotation_time >= subtitle_rotate_interval
    THEN [r EXCEPT !.state = (r.state + 1) % 2, !.time = t]
    ELSE r

\* (mutant) a mode timer that toggles without restarting
rotate_content_keeping_time(r, t) ==
    IF t - r.time >= subtitle_rotate_interval
    THEN [r EXCEPT !.state = (r.state + 1) % 2]
    ELSE r

\* "Rotate display content": the fields r after the mode timer is checked
rotate_content(r, t) ==
    IF t - r.time >= subtitle_rotate_interval
    THEN [r EXCEPT !.state = (r.state + 1) % 2, !.time = t]
    ELSE r

\* (mutant) an except clause that logs and re-raises
reraise_Exception ==
    /\ frame' = frame
    /\ propagated' = TRUE

\* the except clause of display(): log, render the Error frame, return
except_Exception ==
    /\ frame' = _display_error
    /\ propagated' = FALSE

\* display(); render_raises: the title or content view raises while it is
\* laid out or drawn
display(render_raises) ==
    /\ IF DOMAIN current_items = {}
       THEN /\ frame' = _display_no_data
            /\ propagated' = FALSE
            /\ UNCHANGED rotVars
       ELSE LET cats == enabled_categories IN
            IF cats = <<>>
            THEN /\ frame' = _display_no_data
                 /\ propagated' = FALSE
                 /\ UNCHANGED rotVars
            ELSE LET r == rotate_categories(now, Len(cats)) IN
                 /\ current_category_index' = r.index
                 /\ last_category_rotation_time' = r.category_time
                 /\ IF r.index >= Len(cats)
                    THEN \* IndexError at enabled_categories[index]
                         /\ rotation_state' = r.state
                         /\ last_rotation_time' = r.time
                         /\ except_Exception
                    ELSE LET q == rotate_content(r, now) IN
                         /\ rotation_state' = q.state
                         /\ last_rotation_time' = q.time
                         /\ IF render_raises
                            THEN except_Exception
                            ELSE /\ frame' = Frame(IF q.state = 0 THEN "title"
                                                   ELSE "content",
                                                   cats[q.index + 1])
                                 /\ propagated' = FALSE
    /\ UNCHANGED <<cfgVars, dayVars, envVars, histVars, wrapVars,
                   drawVars, viewVars,
                   fileVars>>

----------------------------------------------------------------------------
(* The host: the clock, the calendar and the calls it makes *)

AdvanceTime(limit) ==
    /\ now < StartTime + limit
    /\ now' = now + 1
    /\ UNCHANGED <<cfgVars, dayVars, rotVars, outVars, today, tickVars,
                   histVars, wrapVars,
                   drawVars, viewVars,
                   fileVars>>

Midnight ==
    /\ tm_yday(today) < FirstDay + MaxMidnights
    /\ today' = NextDate(today)
    /\ update_called' = FALSE
    /\ UNCHANGED <<cfgVars, dayVars, rotVars, outVars, now, tickVars,
                   wrapVars,
                   drawVars, viewVars,
                   fileVars>>

Update == update /\ update_called' = TRUE

Display == \E render_raises \in BOOLEAN :
              display(render_raises) /\ UNCHANGED tickVars

Cleanup == cleanup

Tick == AdvanceTime(MaxElapsed)

\* __init__ at StartTime on FirstDay, with the given configuration and with
\* disk holding the data files
Constructed(order, cfg, ui, dri, sri, disk) ==
    /\ category_order = order
    /\ categories = cfg
    /\ load_failures = failed_loads(cfg, disk)
    /\ update_interval = ui
    /\ display_rotate_interval = dri
    /\ subtitle_rotate_interval = sri
    /\ now = StartTime
    /\ today = [year |-> 2025, yday |-> FirstDay]
    /\ data_files = _load_data_files(cfg, disk)
    /\ LET r == _load_todays_items(NoDate, EmptyDict, data_files, today)
       IN  /\ current_day = r.day
           /\ current_items = r.items
    /\ current_category_index = 0
    /\ rotation_state = 0
    /\ last_update = 0
    /\ last_rotation_time = now
    /\ last_category_rotation_time = now
    /\ frame = Frame("blank", "")
    /\ propagated = FALSE
    /\ update_called = FALSE
    /\ last_tick = now
    /\ visits = <<>>

\* the state after construction, for every configuration of the model
PluginInit ==
    \E order \in CategoryOrders, cfg \in CategoryChoices,
       ui \in UpdateIntervals, dri \in DisplayRotateIntervals,
       sri \in SubtitleRotateIntervals, disk \in DiskChoices :
       Constructed(order, cfg, ui, dri, sri, disk)

WrapIdle ==
    /\ wrap_pc = "idle"
    /\ text = <<>>
    /\ max_width = 0
    /\ max_lines = 0
    /\ lines = <<>>
    /\ cut_lines = {}

\* no call of _draw_bdf_text is under way
DrawIdle ==
    /\ draw_pc = "idle"
    /\ draw_args = [text |-> <<>>, x |-> 0, y |-> 0, ascender |-> 0]
    /\ plotted = {}
    /\ cursors = <<>>

\* the texts of a view that was not laid out
NothingShown == [view |-> "", title |-> "", subtitle |-> "", body |-> ""]

\* no call of _display_title or _display_content is under way
ViewIdle ==
    /\ view_pc = "idle"
    /\ item_data = EmptyDict
    /\ shown = NothingShown

\* config.json without an of-the-day section, and no script run yet
NoSection ==
    /\ config_json = EmptyDict
    /\ script_run = [op |-> "none", category_name |-> "", status |-> "none"]

Init == PluginInit /\ WrapIdle /\ DrawIdle /\ ViewIdle /\ NoSection

Next == Update \/ Display \/ Cleanup \/ Tick \/ Midnight

Spec == Init /\ [][Next]_vars

----------------------------------------------------------------------------
(* Properties of the scheduler and the day resolver *)

\* a step of display(), with either outcome of the rendering
DisplayStep == \E render_raises \in BOOLEAN : display(render_raises)

\* N: the number of eligible categories
N == Len(enabled_categories)

CategoryTimerDue ==
    now - last_category_rotation_time >= display_rotate_interval

ModeTimerDue == now - last_rotation_time >= subtitle_rotate_interval

\* C1: on every display() tick with N >= 1 eligible categories, the index
\* display() uses to select the category is in 0 .. N-1 (an index left out
\* of range by a shrink of the list is clamped or wrapped).
C1_IndexInRange ==
    [][DisplayStep /\ N >= 1
         => current_category_index' \in 0 .. (N - 1)]_vars

\* C2 (as stated): display() never changes CurrentItems, and once update()
\* has been called after the date changed, CurrentItems holds the new day's
\* entry of every loaded dataset that has one.
C2_FirstUpdateLoadsNewDay ==
    /\ [][DisplayStep => current_items' = current_items]_vars
    /\ [](update_called =>
            \A c \in DOMAIN data_files :
               str(tm_yday(today)) \in DOMAIN data_files[c] =>
                  /\ c \in DOMAIN current_items
                  /\ current_items[c] = data_files[c][str(tm_yday(today))])

\* C2 (amended): CurrentItems changes only in cleanup() or in an update()
\* call that is not throttled (at least update_interval since the last
\* unthrottled call) and sees a date other than the cached one; such a call
\* leaves CurrentItems holding exactly the new day's entries.
C2_UnthrottledUpdateLoadsNewDay ==
    /\ [][current_items' # current_items /\ DOMAIN current_items' # {}
            => /\ now - last_update >= update_interval
               /\ current_day # today
               /\ last_update' = now]_vars
    /\ [][last_update' # last_update /\ current_day # today
            => /\ current_day' = today
               /\ DOMAIN current_items' =
                    {c \in DOMAIN data_files :
                        str(tm_yday(today)) \in DOMAIN data_files[c]}
               /\ \A c \in DOMAIN current_items' :
                     current_items'[c] = data_files[c][str(tm_yday(today))]
           ]_vars
    /\ [][DisplayStep => current_items' = current_items]_vars

\* C2 witness: after a midnight, an update() has loaded the next day's
\* entries
C2_Witness ==
    /\ tm_yday(current_day) = FirstDay + 1
    /\ \E c \in DOMAIN current_items :
          current_items[c] = <<c, str(FirstDay + 1)>>

\* C3: a display() tick with no eligible category renders the No Data
\* frame and leaves the rotation state unchanged.
C3_NoDataNoTransition ==
    [][DisplayStep /\ N = 0
         => /\ frame' = Frame("no_data", "")
            /\ UNCHANGED rotVars]_vars

\* C3 witness: No Data is on the matrix although items are loaded and the
\* rotation had advanced before
C3_Witness ==
    /\ frame.view = "no_data"
    /\ DOMAIN current_items # {}
    /\ current_category_index = 1

\* C5 (as stated): on a display() tick that leaves category_index
\* unchanged, the mode changes only if the mode timer is due.
C5_ModeChangesOnlyWhenDue ==
    [][DisplayStep /\ current_category_index' = current_category_index
                   /\ rotation_state' # rotation_state
         => ModeTimerDue]_vars

\* C5 (amended): on a display() tick at which the category timer does not
\* fire, the mode changes only if the mode timer is due, and then it
\* toggles between TITLE (0) and CONTENT (1) and the mode timer restarts.
C5_ModeChangesOnlyWhenDueOrReset ==
    [][DisplayStep /\ ~CategoryTimerDue /\ rotation_state' # rotation_state
         => /\ ModeTimerDue
            /\ rotation_state' = 1 - rotation_state
            /\ last_rotation_time' = now]_vars

\* C5 witness: the mode timer has switched the view back from CONTENT to
\* TITLE within one category
C5_Witness ==
    /\ rotation_state = 0
    /\ frame.view = "title"
    /\ last_rotation_time = now
    /\ last_category_rotation_time < now
    /\ last_category_rotation_time + 2 * subtitle_rotate_interval <= now

\* C6: a display() tick at which the category timer fires ends in mode
\* TITLE, and the view it renders is the title view.
C6_CategorySwitchEndsInTitle ==
    [][DisplayStep /\ N >= 1 /\ CategoryTimerDue
         => /\ rotation_state' = 0
            /\ frame'.view \in {"title", "error"}
            /\ last_rotation_time' = now]_vars

\* C6 witness: the category timer has fired at a tick at which the mode
\* timer was due as well
C6_Witness ==
    /\ last_category_rotation_time = now
    /\ now > StartTime
    /\ current_category_index = 1
    /\ rotation_state = 0
    /\ frame.view = "title"

C10_CategoryTimerStep ==
    [][DisplayStep /\ N >= 1
         => IF CategoryTimerDue
            THEN /\ current_category_index' = (current_category_index + 1) % N
                 /\ rotation_state' = 0
                 /\ last_category_rotation_time' = now
                 /\ last_rotation_time' = now
            ELSE /\ current_category_index' = current_category_index
                 /\ last_category_rotation_time' = last_category_rotation_time
      ]_vars

\* C10 witness: the first category switch happens two or more intervals
\* after construction and still advances the index by one only
C10_Witness ==
    /\ N = 3
    /\ current_category_index = 1
    /\ last_category_rotation_time = now
    /\ now - StartTime >= 2 * display_rotate_interval

\* a step of update()
UpdateStep == update

\* C11: an update() call changes CurrentItems or the cached date only when
\* the date differs from the cached date or update_interval has elapsed
\* since the last refresh; a call made while the cached date is today's
\* changes neither.
C11_UpdateRefreshPolicy ==
    /\ [][UpdateStep /\ <<current_items, current_day>>'
                          # <<current_items, current_day>>
            => \/ current_day # today
               \/ now - last_update >= update_interval]_vars
    /\ [][UpdateStep /\ current_day = today
            => UNCHANGED <<current_items, current_day>>]_vars

\* C11 witness: a second unthrottled update() was made on the day of
\* construction, with items loaded
C11_Witness ==
    /\ update_called
    /\ last_update >= StartTime + update_interval
    /\ current_day = today
    /\ tm_yday(today) = FirstDay
    /\ DOMAIN current_items # {}

\* C12: from the first refresh on, CurrentItems holds exactly the loaded
\* categories whose dataset has the key str(day of year) of the cached date,
\* each with that day's entry; a category without the key is absent and no
\* entry of another day is left.
C12_ItemsAreTodaysEntries ==
    current_day # NoDate =>
       /\ DOMAIN current_items =
             {c \in DOMAIN data_files :
                 str(tm_yday(current_day)) \in DOMAIN data_files[c]}
       /\ \A c \in DOMAIN current_items :
             /\ current_items[c] = data_files[c][str(tm_yday(current_day))]
             /\ current_items[c] = <<c, str(tm_yday(current_day))>>

\* C12 witness: a refresh after midnight has dropped a loaded category that
\* has no entry for the new day and kept another one
C12_Witness ==
    /\ tm_yday(current_day) = FirstDay + 1
    /\ DOMAIN current_items # {}
    /\ \E c \in DOMAIN data_files :
          /\ c \notin DOMAIN current_items
          /\ str(FirstDay) \in DOMAIN data_files[c]

\* cat is listed in category_order
InCategoryOrder(cat) == \E i \in 1 .. Len(category_order) : category_order[i] = cat

\* C13: a category whose data file could not be loaded is not in
\* CurrentItems and is not the category on the matrix; every other enabled
\* category is loaded as long as the plugin is not cleaned up, and with an
\* entry for the cached date it is in CurrentItems and, if category_order
\* lists it, among the categories display() rotates through.
C13_FailedLoadSkipsOnlyThatCategory ==
    /\ \A c \in load_failures :
          /\ c \notin DOMAIN current_items
          /\ frame.category # c
    /\ \A c \in Cats \ load_failures :
          /\ (is_enabled(c) /\ data_files # EmptyDict)
                => c \in DOMAIN data_files
          /\ (/\ c \in DOMAIN data_files
              /\ str(tm_yday(current_day)) \in DOMAIN data_files[c])
                => /\ c \in DOMAIN current_items
                   /\ (is_enabled(c) /\ InCategoryOrder(c))
                         => \E i \in 1 .. N : enabled_categories[i] = c

\* C13 witness: the first category of category_order failed to load and the
\* content view of another category is on the matrix
C13_Witness ==
    /\ category_order[1] \in load_failures
    /\ frame.view = "content"
    /\ frame.category \in Cats \ load_failures

\* display() reaches the mode timer (a category is selected) and finds it due
ModeTimerFires ==
    /\ N >= 1
    /\ current_category_index < N
    /\ ModeTimerDue

\* C14: on a display() tick at which the mode timer fires and the category
\* timer does not, the mode toggles between TITLE (0) and CONTENT (1), the
\* mode timer restarts at now, and category_index and the category timer are
\* left as they were.
C14_ModeTimerResetsOnlyItself ==
    [][DisplayStep /\ ModeTimerFires /\ ~CategoryTimerDue
         => /\ rotation_state' = 1 - rotation_state
            /\ last_rotation_time' = now
            /\ UNCHANGED <<current_category_index,
                           last_category_rotation_time>>]_vars

\* C14 witness: the mode timer alone has just switched the view to CONTENT
C14_Witness ==
    /\ rotation_state = 1
    /\ frame.view = "content"
    /\ last_rotation_time = now
    /\ last_category_rotation_time < now
    /\ now - last_category_rotation_time < display_rotate_interval

\* C15: an update() call leaves category_index, the mode and both timers as
\* they were, whether or not it reloads CurrentItems.
C15_UpdateKeepsRotationState ==
    [][UpdateStep => UNCHANGED rotVars]_vars

\* C15 witness: update() has just reloaded the items for a new day while
\* the rotation stands at the second category in CONTENT mode
C15_Witness ==
    /\ tm_yday(current_day) = FirstDay + 1
    /\ last_update = now
    /\ current_category_index = 1
    /\ rotation_state = 1
    /\ last_category_rotation_time > StartTime

\* a category display() may select: listed in category_order, enabled and
\* with an entry in CurrentItems
Listed(c) ==
    /\ InCategoryOrder(c)
    /\ Get(Get(categories, c, EmptyDict), "enabled", TRUE)
    /\ c \in DOMAIN current_items

\* C21: the category of a title or content view that display() renders is
\* listed in category_order, enabled and in CurrentItems; a category that
\* category_order does not list is never on the matrix; and a display() tick
\* with no such category renders No Data, whatever CurrentItems holds.
C21_OnlyListedCategoriesShown ==
    /\ [][DisplayStep /\ frame'.view \in {"title", "content"}
            => Listed(frame'.category)]_vars
    /\ [](\A c \in Cats : ~InCategoryOrder(c) => frame.category # c)
    /\ [][DisplayStep /\ (\A c \in Cats : ~Listed(c))
            => frame' = Frame("no_data", "")]_vars

\* C21 witness: No Data is on the matrix while CurrentItems holds the entry
\* of an enabled category that category_order does not list
C21_Witness ==
    /\ frame.view = "no_data"
    /\ \E c \in DOMAIN current_items :
          /\ ~InCategoryOrder(c)
          /\ is_enabled(c)

\* C22: with subtitle_rotate_interval >= display_rotate_interval > 0 the
\* mode is TITLE in every reachable state, the content view is never on the
\* matrix, and the mode timer never fires: the two timers stay equal and no
\* display() tick restarts the mode timer unless the category timer is due.
C22_AlwaysTitleWhenSubtitleIntervalLonger ==
    /\ []((subtitle_rotate_interval >= display_rotate_interval
            /\ display_rotate_interval > 0)
            => /\ rotation_state = 0
               /\ frame.view # "content"
               /\ last_rotation_time = last_category_rotation_time)
    /\ [][(/\ DisplayStep
           /\ subtitle_rotate_interval >= display_rotate_interval
           /\ last_rotation_time' # last_rotation_time)
            => CategoryTimerDue]_vars

\* C22 witness: with the mode timer's interval longer than the category
\* timer's, the title view is rendered at a tick that comes the mode
\* timer's interval or more after construction, which is the first tick
\* (the category timer has fired once)
C22_Witness ==
    /\ subtitle_rotate_interval > display_rotate_interval
    /\ frame.view = "title"
    /\ last_category_rotation_time = now
    /\ now - StartTime >= subtitle_rotate_interval
    /\ current_category_index = 1

\* a step of cleanup()
CleanupStep == cleanup

\* cleanup() has run: no dataset is held although one was loaded in __init__
CleanedUp ==
    /\ data_files = EmptyDict
    /\ \E c \in Cats : is_enabled(c) /\ c \notin load_failures

\* C24: cleanup() leaves CurrentItems and the datasets empty; from then on
\* they stay empty under every call and date change, and every display()
\* tick renders No Data and leaves the rotation state as it was.
C24_CleanupIsFinal ==
    /\ [][CleanupStep
            => current_items' = EmptyDict /\ data_files' = EmptyDict]_vars
    /\ [](data_files = EmptyDict => current_items = EmptyDict)
    /\ [][data_files = EmptyDict => data_files' = EmptyDict]_vars
    /\ [][DisplayStep /\ data_files = EmptyDict
            => /\ frame' = Frame("no_data", "")
               /\ UNCHANGED rotVars]_vars

\* C24 witness: after cleanup() and a date change an unthrottled update()
\* has set the cached date, and display() shows No Data with the rotation
\* still at the second category
C24_Witness ==
    /\ CleanedUp
    /\ tm_yday(current_day) = FirstDay + 1
    /\ last_update = now
    /\ frame.view = "no_data"
    /\ current_category_index = 1

----------------------------------------------------------------------------
(* Text wrapper.  A string is a sequence of one-character strings. *)

\* longest text, widest line (in characters) and largest line cap tried
MaxTextLen == 6
MaxWidthChars == 5
MaxLineCap == 3
\* longest single word tried (longer than the fallback truncation keeps)
MaxTokenLen == 11

\* pixels per character of the fallback width, len(test_line) * 6
CharWidth == 6
\* characters kept by the fallback truncation, word[:10]
FallbackChars == 10

Alphabet == {"a", "b", " "}

Texts == UNION {[1 .. n -> Alphabet] : n \in 0 .. MaxTextLen}

\* words too long for the fallback truncation to keep whole: a run of "a"
\* followed by a run of "b"
LongTokens ==
    {[i \in 1 .. n |-> IF i <= k THEN "a" ELSE "b"] :
        n \in (FallbackChars + 1) .. MaxTokenLen, k \in 0 .. MaxTokenLen}

Ellipsis == <<".", ".", ".">>

\* str.split(): the maximal runs of non-whitespace characters
RECURSIVE split_from(_, _, _)
split_from(s, word, words) ==
    IF s = <<>>
    THEN IF word = <<>> THEN words ELSE Append(words, word)
    ELSE IF Head(s) = " "
         THEN split_from(Tail(s), <<>>,
                         IF word = <<>> THEN words ELSE Append(words, word))
         ELSE split_from(Tail(s), Append(word, Head(s)), words)

split(s) == split_from(s, <<>>, <<>>)

\* ' '.join(words)
RECURSIVE join(_)
join(words) ==
    IF words = <<>> THEN <<>>
    ELSE IF Len(words) = 1 THEN words[1]
         ELSE words[1] \o <<" ">> \o join(Tail(words))

\* the measured width of a line: len(line) * 6
get_text_width(line) == Len(line) * CharWidth

\* s[:n]
Prefix(s, n) == SubSeq(s, 1, IF n < Len(s) THEN n ELSE Len(s))

\* (mutant) a truncation that falls back to the whole word
RECURSIVE truncate_word_whole_fallback(_, _, _)
truncate_word_whole_fallback(word, truncated, width) ==
    IF Len(truncated) = 0
    THEN word \o Ellipsis
    ELSE IF get_text_width(truncated \o Ellipsis) <= width
         THEN truncated \o Ellipsis
         ELSE truncate_word_whole_fallback(
                 word, Prefix(truncated, Len(truncated) - 1), width)

\* "Word is too long - truncate it": the line made of a word that is tested
\* against an empty current line and does not fit
RECURSIVE truncate_word(_, _, _)
truncate_word(word, truncated, width) ==
    IF Len(truncated) = 0
    THEN Prefix(word, FallbackChars) \o Ellipsis
    ELSE IF get_text_width(truncated \o Ellipsis) <= width
         THEN truncated \o Ellipsis
         ELSE truncate_word(word, Prefix(truncated, Len(truncated) - 1), width)

\* (mutant) a loop that loses the word that did not fit after a flush
RECURSIVE wrap_words_dropping(_, _, _, _, _, _)
wrap_words_dropping(words, out, current_line, cut, width, cap) ==
    IF words = <<>>
    THEN [lines |-> out, current_line |-> current_line, cut |-> cut]
    ELSE LET word == Head(words)
             test_line == IF current_line # <<>>
                          THEN join(current_line \o <<word>>) ELSE word
             fits == get_text_width(test_line) <= width
             out2 == IF fits THEN out
                     ELSE IF current_line # <<>>
                          THEN Append(out, join(current_line))
                          ELSE Append(out, truncate_word(word, word, width))
             current2 == IF fits THEN Append(current_line, word) ELSE <<>>
             cut2 == IF ~fits /\ current_line = <<>>
                     THEN cut \cup {Len(out2)} ELSE cut
         IN  IF Len(out2) >= cap
             THEN [lines |-> out2, current_line |-> current2, cut |-> cut2]
             ELSE wrap_words_dropping(Tail(words), out2, current2, cut2,
                                      width, cap)

\* the loop of _wrap_text over the words left, from the lines made so far
\* (out), the current line's words (current_line) and the indices of the
\* lines made by truncation (cut)
RECURSIVE wrap_words(_, _, _, _, _, _)
wrap_words(words, out, current_line, cut, width, cap) ==
    IF words = <<>>
    THEN [lines |-> out, current_line |-> current_line, cut |-> cut]
    ELSE LET word == Head(words)
             test_line == IF current_line # <<>>
                          THEN join(current_line \o <<word>>) ELSE word
             fits == get_text_width(test_line) <= width
             out2 == IF fits THEN out
                     ELSE IF current_line # <<>>
                          THEN Append(out, join(current_line))
                          ELSE Append(out, truncate_word(word, word, width))
             current2 == IF fits THEN Append(current_line, word)
                         ELSE IF current_line # <<>> THEN <<word>> ELSE <<>>
             cut2 == IF ~fits /\ current_line = <<>>
                     THEN cut \cup {Len(out2)} ELSE cut
         IN  IF Len(out2) >= cap
             THEN [lines |-> out2, current_line |-> current2, cut |-> cut2]
             ELSE wrap_words(Tail(words), out2, current2, cut2, width, cap)

\* (mutant) _wrap_text returning lines instead of lines[:max_lines]
wrap_text_marked_unsliced(t, width, cap) ==
    IF t = <<>>
    THEN [lines |-> <<<<>>>>, cut |-> {}]
    ELSE LET r == wrap_words(split(t), <<>>, <<>>, {}, width, cap)
             all == IF r.current_line # <<>> /\ Len(r.lines) < cap
                    THEN Append(r.lines, join(r.current_line))
                    ELSE r.lines
         IN  [lines |-> all, cut |-> r.cut]

\* (mutant) _wrap_text marking the last line when the cap is reached
wrap_text_marked_with_marker(t, width, cap) ==
    IF t = <<>>
    THEN [lines |-> <<<<>>>>, cut |-> {}]
    ELSE LET r == wrap_words(split(t), <<>>, <<>>, {}, width, cap)
             all == IF r.current_line # <<>> /\ Len(r.lines) < cap
                    THEN Append(r.lines, join(r.current_line))
                    ELSE r.lines
             kept == Prefix(all, cap)
             marked == IF cap >= 1 /\ Len(kept) = cap
                       THEN [kept EXCEPT ![cap] = @ \o Ellipsis]
                       ELSE kept
         IN  [lines |-> marked, cut |-> r.cut \cap (1 .. Len(kept))]

\* _wrap_text(text, max_width, font, max_lines), with the indices of the
\* returned lines that were made by truncation
wrap_text_marked(t, width, cap) ==
    IF t = <<>>
    THEN [lines |-> <<<<>>>>, cut |-> {}]
    ELSE LET r == wrap_words(split(t), <<>>, <<>>, {}, width, cap)
             all == IF r.current_line # <<>> /\ Len(r.lines) < cap
                    THEN Append(r.lines, join(r.current_line))
                    ELSE r.lines
             kept == Prefix(all, cap)
         IN  [lines |-> kept, cut |-> r.cut \cap (1 .. Len(kept))]

_wrap_text(t, width, cap) == wrap_text_marked(t, width, cap).lines

\* a call of _wrap_text returns
WrapReturn ==
    /\ wrap_pc = "called"
    /\ wrap_pc' = "returned"
    /\ lines' = _wrap_text(text, max_width, max_lines)
    /\ cut_lines' = wrap_text_marked(text, max_width, max_lines).cut
    /\ UNCHANGED <<text, max_width, max_lines>>
    /\ UNCHANGED <<cfgVars, dayVars, rotVars, outVars, envVars, tickVars,
                   histVars, drawVars, viewVars,
                   fileVars>>

\* _wrap_text is called with any text, width and line cap of the model; the
\* plugin itself is in the state after a construction
WrapCalled ==
    /\ wrap_pc = "called"
    /\ text \in Texts \cup LongTokens
    /\ max_width \in {w * CharWidth : w \in 0 .. MaxWidthChars}
    /\ max_lines \in 0 .. MaxLineCap
    /\ lines = <<>>
    /\ cut_lines = {}

InitWrap ==
    /\ Constructed(<<"a", "b", "c">>,
                   [c \in Cats |-> [enabled |-> TRUE, data_file |-> c]],
                   2, 2, 1,
                   [c \in Cats |-> [status |-> "missing", data |-> EmptyDict]])
    /\ WrapCalled
    /\ DrawIdle
    /\ ViewIdle
    /\ NoSection

NextWrap == WrapReturn

SpecWrap == InitWrap /\ [][NextWrap]_vars

\* C7: every returned line that was not made by truncating a word measures
\* at most max_width.
C7_WidthBound ==
    wrap_pc = "returned" =>
       \A i \in 1 .. Len(lines) :
          i \notin cut_lines => get_text_width(lines[i]) <= max_width

FittingPrefixes(word, width) ==
    {n \in 1 .. Len(word) :
        get_text_width(Prefix(word, n) \o Ellipsis) <= width}

\* the line the truncation of a too wide word is to give
TruncationOf(word, width) ==
    IF FittingPrefixes(word, width) # {}
    THEN LET n == CHOOSE m \in FittingPrefixes(word, width) :
                     \A k \in FittingPrefixes(word, width) : k <= m
         IN  Prefix(word, n) \o Ellipsis
    ELSE Prefix(word, FallbackChars) \o Ellipsis

\* C16: a token that is tested against an empty current line (the first
\* token, or one after tokens that were all truncated) and alone measures
\* more than max_width gives a line of its own: its longest prefix p with
\* p + "..." fitting, followed by "...", or with no such prefix its first 10
\* characters followed by "...".
C16_TruncationLine ==
    wrap_pc = "returned" =>
       LET words == split(text) IN
       \A j \in 1 .. Len(words) :
          (/\ j <= max_lines
           /\ \A i \in 1 .. j : get_text_width(words[i]) > max_width)
             => /\ Len(lines) >= j
                /\ lines[j] = TruncationOf(words[j], max_width)
                /\ j \in cut_lines

\* C16 witness: a token of more than 10 characters of which no prefix fits
\* was cut to its first 10 characters
C16_Witness ==
    /\ wrap_pc = "returned"
    /\ text \in LongTokens
    /\ max_lines >= 1
    /\ FittingPrefixes(text, max_width) = {}
    /\ lines = <<Prefix(text, FallbackChars) \o Ellipsis>>
    /\ text[1] # text[Len(text)]

\* the example text of the specification, as a sequence of characters
QuickBrownFox ==
    <<"T", "h", "e", " ", "q", "u", "i", "c", "k", " ",
      "b", "r", "o", "w", "n", " ", "f", "o", "x", " ",
      "j", "u", "m", "p", "s">>

\* C17: when no token was truncated and fewer than max_lines lines are
\* returned, the lines joined with single spaces are the tokens of the text
\* joined with single spaces, and each line but the last, joined by a space
\* with the first token of the line after it, measures more than max_width.
\* The example text wraps at 30 pixels into one word per line.
C17_GreedyLayout ==
    /\ (wrap_pc = "returned" /\ cut_lines = {} /\ Len(lines) < max_lines)
          => /\ join(lines) = join(split(text))
             /\ \A i \in 1 .. (Len(lines) - 1) :
                   get_text_width(join(<<lines[i], split(lines[i + 1])[1]>>))
                      > max_width
    /\ _wrap_text(QuickBrownFox, 5 * CharWidth, 10)
          = <<SubSeq(QuickBrownFox, 1, 3), SubSeq(QuickBrownFox, 5, 9),
              SubSeq(QuickBrownFox, 11, 15), SubSeq(QuickBrownFox, 17, 19),
              SubSeq(QuickBrownFox, 21, 25)>>

\* C17 witness: two lines below the cap, the first of them with two words
C17_Witness ==
    /\ wrap_pc = "returned"
    /\ cut_lines = {}
    /\ Len(lines) = 2
    /\ max_lines = 3
    /\ Len(split(lines[1])) = 2

\* the wrap of t with a cap no output reaches
Uncapped(t, width) == _wrap_text(t, width, Len(t) + 1)

\* C18: for max_lines = k >= 1 the returned lines are the first k lines of
\* the wrap of the same text and width without an effective cap (all of
\* them when there are fewer than k).
C18_CapIsPrefixOfUncapped ==
    (wrap_pc = "returned" /\ max_lines >= 1)
       => lines = Prefix(Uncapped(text, max_width), max_lines)

\* C18 witness: the cap of two lines has dropped a third line of a text
\* wrapped without truncation
C18_Witness ==
    /\ wrap_pc = "returned"
    /\ max_lines = 2
    /\ Len(Uncapped(text, max_width)) = 3
    /\ Len(lines) = 2
    /\ cut_lines = {}
    /\ lines[1] # lines[2]

----------------------------------------------------------------------------
(* Rotation over a fixed list: only display() is called, first right after
   construction and then at least once per display_rotate_interval, and the
   clock runs for MaxElapsedRot seconds *)

\* the category display() selected, if its index is in range
Selected(cats, index) ==
    IF index < Len(cats) THEN <<cats[index + 1]>> ELSE <<>>

\* a display() tick; a visit starts when the selected category is another
\* one than at the previous tick
DisplayRot ==
    /\ \E render_raises \in BOOLEAN : display(render_raises)
    /\ last_tick' = now
    /\ LET sel == Selected(enabled_categories, current_category_index')
       IN  visits' = IF sel # <<>> /\ (visits = <<>>
                                       \/ visits[Len(visits)] # sel[1])
                     THEN visits \o sel ELSE visits

\* the clock advances after the first tick, never more than
\* display_rotate_interval past the last tick
TickRot ==
    /\ visits # <<>>
    /\ now + 1 - last_tick <= display_rotate_interval
    /\ AdvanceTime(MaxElapsedRot)

\* a plugin constructed with at least one eligible category
InitRot ==
    /\ \E order \in CategoryOrders, cfg \in CategoryChoices,
          dri \in DisplayRotateIntervals, sri \in SubtitleRotateIntervals,
          disk \in DiskChoices :
          /\ \A c \in Cats : disk[c].status # "malformed"
          /\ Constructed(order, cfg, 2, dri, sri, disk)
    /\ enabled_categories # <<>>
    /\ WrapIdle
    /\ DrawIdle
    /\ ViewIdle
    /\ NoSection

NextRot == DisplayRot \/ TickRot

SpecRot == InitRot /\ [][NextRot]_vars

\* the position (from 0) of category c in the eligible list
PositionOf(c) ==
    CHOOSE i \in 0 .. (N - 1) : enabled_categories[i + 1] = c

Visited == {visits[i] : i \in 1 .. Len(visits)}

Eligible == {enabled_categories[i] : i \in 1 .. N}

\* C4 (as stated): no category is visited twice among the first N visits,
\* and once N x display_rotate_interval has elapsed since the first tick
\* every eligible category has been visited.
C4_AllVisitedWithinNIntervals ==
    /\ \A i, j \in 1 .. Len(visits) :
          i < j /\ j <= N => visits[i] # visits[j]
    /\ now - StartTime > N * display_rotate_interval => Visited = Eligible

\* C4 (amended): the visits go round-robin through the eligible list, so no
\* category is visited a second time before every other one was visited
\* once; the category shown changes less than two intervals after the last
\* change, so that every eligible category has been visited once
\* 2 x (N - 1) x display_rotate_interval has elapsed since the first tick.
C4_RoundRobinWithinTwoIntervalsEach ==
    /\ \A i \in 1 .. (Len(visits) - 1) :
          PositionOf(visits[i + 1]) = (PositionOf(visits[i]) + 1) % N
    /\ \A i, j \in 1 .. Len(visits) :
          i < j /\ j - i < N => visits[i] # visits[j]
    /\ now - last_category_rotation_time < 2 * display_rotate_interval
    /\ (/\ visits # <<>>
        /\ now - StartTime >= 2 * (N - 1) * display_rotate_interval)
          => Visited = Eligible

\* C4 witness: the third of three categories is first visited more than
\* three intervals after the first tick
C4_Witness ==
    /\ N = 3
    /\ Len(visits) = 3
    /\ last_category_rotation_time - StartTime > N * display_rotate_interval

----------------------------------------------------------------------------
(* Bitmap-font drawing (_draw_bdf_text with a freetype.Face).  A glyph is
   what font.load_char leaves in font.glyph: the bitmap (rows, width, pitch,
   buffer of bytes, most significant bit first), bitmap_left, bitmap_top and
   advance.x in 1/64 pixel. *)

\* display_manager.width and display_manager.height
CanvasWidth == 3
CanvasHeight == 2
\* longest text drawn
MaxDrawLen == 2

\* the font: a 2x2 glyph; a glyph left of and above its origin whose buffer
\* lacks the second row; a glyph of nine columns in two bytes per row; a
\* space
Font ==
    [A |-> [rows |-> 2, width |-> 2, pitch |-> 1, buffer |-> <<192, 128>>,
            bitmap_left |-> 0, bitmap_top |-> 2, advance_x |-> 128],
     B |-> [rows |-> 2, width |-> 2, pitch |-> 1, buffer |-> <<192>>,
            bitmap_left |-> -1, bitmap_top |-> 3, advance_x |-> 100],
     C |-> [rows |-> 1, width |-> 9, pitch |-> 2, buffer |-> <<255, 128>>,
            bitmap_left |-> 0, bitmap_top |-> 1, advance_x |-> 200],
     S |-> [rows |-> 0, width |-> 0, pitch |-> 0, buffer |-> <<>>,
            bitmap_left |-> 0, bitmap_top |-> 0, advance_x |-> 64]]

DrawTexts == UNION {[1 .. n -> DOMAIN Font] : n \in 0 .. MaxDrawLen}

\* font.size.ascender values, in 1/64 pixel
Ascenders == {0, 100, 128}

\* n >> 6
ShiftRight6(n) == n \div 64

\* byte & (1 << k), as a truth value
BitSet(byte, k) == (byte \div (2 ^ k)) % 2 = 1

\* the bit of row i, column j is in the buffer and set
PixelSet(g, i, j) ==
    LET byte_index == i * g.pitch + (j \div 8)
    IN  /\ byte_index < Len(g.buffer)
        /\ BitSet(g.buffer[byte_index + 1], 7 - (j % 8))

\* "Calculate actual pixel position"
PixelAt(g, current_x, baseline_y, i, j) ==
    [x |-> current_x + g.bitmap_left + j, y |-> baseline_y - g.bitmap_top + i]

\* "Only draw if within bounds"
InBounds(p) ==
    /\ 0 <= p.x /\ p.x < CanvasWidth
    /\ 0 <= p.y /\ p.y < CanvasHeight

\* (mutant) the glyph loops without the bounds test
glyph_points_unclipped(g, current_x, baseline_y) ==
    {PixelAt(g, current_x, baseline_y, c[1], c[2]) :
        c \in {d \in (0 .. (g.rows - 1)) \X (0 .. (g.width - 1)) :
                  PixelSet(g, d[1], d[2])}}

\* the loops over bitmap.rows and bitmap.width: the points drawn for glyph g
glyph_points(g, current_x, baseline_y) ==
    {PixelAt(g, current_x, baseline_y, c[1], c[2]) :
        c \in {d \in (0 .. (g.rows - 1)) \X (0 .. (g.width - 1)) :
                  /\ PixelSet(g, d[1], d[2])
                  /\ InBounds(PixelAt(g, current_x, baseline_y, d[1], d[2]))}}

\* "for char in text": the points drawn and the values of current_x
RECURSIVE draw_chars(_, _, _, _, _)
draw_chars(t, current_x, baseline_y, points, xs) ==
    IF t = <<>>
    THEN [plotted |-> points, cursors |-> Append(xs, current_x)]
    ELSE LET g == Font[Head(t)]
         IN  draw_chars(Tail(t), current_x + ShiftRight6(g.advance_x),
                        baseline_y,
                        points \cup glyph_points(g, current_x, baseline_y),
                        Append(xs, current_x))

\* _draw_bdf_text(draw, font, text, x, y) with a freetype.Face
_draw_bdf_text(a) ==
    draw_chars(a.text, a.x, a.y + ShiftRight6(a.ascender), {}, <<>>)

\* a call of _draw_bdf_text returns
DrawReturn ==
    /\ draw_pc = "called"
    /\ draw_pc' = "returned"
    /\ plotted' = _draw_bdf_text(draw_args).plotted
    /\ cursors' = _draw_bdf_text(draw_args).cursors
    /\ UNCHANGED draw_args
    /\ UNCHANGED <<cfgVars, dayVars, rotVars, outVars, envVars, tickVars,
                   histVars, wrapVars, viewVars,
                   fileVars>>

\* _draw_bdf_text is called with any text and position of the model
DrawCalled ==
    /\ draw_pc = "called"
    /\ draw_args \in [text : DrawTexts, x : -1 .. CanvasWidth,
                      y : -2 .. CanvasHeight, ascender : Ascenders]
    /\ plotted = {}
    /\ cursors = <<>>

InitDraw ==
    /\ Constructed(<<"a", "b", "c">>,
                   [c \in Cats |-> [enabled |-> TRUE, data_file |-> c]],
                   2, 2, 1,
                   [c \in Cats |-> [status |-> "missing", data |-> EmptyDict]])
    /\ WrapIdle
    /\ DrawCalled
    /\ ViewIdle
    /\ NoSection

NextDraw == DrawReturn

SpecDraw == InitDraw /\ [][NextDraw]_vars

\* the sum of the integer advances of the first k characters of t
RECURSIVE AdvanceSum(_, _)
AdvanceSum(t, k) ==
    IF k = 0 THEN 0
    ELSE AdvanceSum(t, k - 1) + ShiftRight6(Font[t[k]].advance_x)

\* C19: every point drawn is inside the canvas; the points drawn are
\* exactly the set bits (row, col) of the characters' bitmaps whose byte is
\* inside the buffer and whose pixel (cursor_x + glyph.left + col,
\* y + ascender - glyph.top + row) is inside the canvas, for every character
\* of the text; and cursor_x starts at x and grows by the glyph's advance in
\* whole pixels after each character.
C19_BdfPixelsInBounds ==
    draw_pc = "returned" =>
       LET t == draw_args.text
           top_y == draw_args.y + (draw_args.ascender \div 64)
           Want == {p \in [x : 0 .. (CanvasWidth - 1),
                           y : 0 .. (CanvasHeight - 1)] :
                      \E k \in 1 .. Len(t) :
                         LET g == Font[t[k]] IN
                         \E row \in 0 .. (g.rows - 1),
                            col \in 0 .. (g.width - 1) :
                            /\ PixelSet(g, row, col)
                            /\ p.x = draw_args.x + AdvanceSum(t, k - 1)
                                       + g.bitmap_left + col
                            /\ p.y = top_y - g.bitmap_top + row}
       IN  /\ \A p \in plotted : /\ 0 <= p.x /\ p.x < CanvasWidth
                                 /\ 0 <= p.y /\ p.y < CanvasHeight
           /\ plotted = Want
           /\ Len(cursors) = Len(t) + 1
           /\ cursors[1] = draw_args.x
           /\ \A k \in 1 .. Len(t) :
                 cursors[k + 1] = cursors[k] + (Font[t[k]].advance_x \div 64)

\* C19 witness: the first glyph lies outside the canvas and lacks a row in
\* its buffer, and the glyph after it is drawn in full
C19_Witness ==
    /\ draw_pc = "returned"
    /\ draw_args = [text |-> <<"B", "A">>, x |-> 0, y |-> 0, ascender |-> 128]
    /\ cursors = <<0, 1, 3>>
    /\ Cardinality(plotted) = 3

----------------------------------------------------------------------------
(* The texts of the title view and of the content view, read from an entry
   of a dataset.  An entry is a dict from field names to strings. *)

Fields ==
    {"title", "word", "subtitle", "pronunciation", "type",
     "description", "definition", "content", "text"}

\* the entries: every field is absent, present and empty, or present with
\* a text (here the field's own name)
Entries ==
    {[k \in {f \in Fields : st[f] # "absent"}
        |-> IF st[k] = "empty" THEN "" ELSE k] :
       st \in [Fields -> {"absent", "empty", "text"}]}

\* (mutant) the title read from 'word' before 'title'
title_of_word_first(item) == Get(item, "word", Get(item, "title", "N/A"))

\* item_data.get('title', item_data.get('word', 'N/A'))
title_of(item) == Get(item, "title", Get(item, "word", "N/A"))

\* item_data.get('subtitle', item_data.get('pronunciation',
\*                                         item_data.get('type', '')))
subtitle_of(item) ==
    Get(item, "subtitle", Get(item, "pronunciation", Get(item, "type", "")))

\* item_data.get('description', item_data.get('definition',
\*     item_data.get('content', item_data.get('text', 'No content'))))
description_of(item) ==
    Get(item, "description",
        Get(item, "definition",
            Get(item, "content", Get(item, "text", "No content"))))

\* _display_title lays out the title and the subtitle of the entry
DisplayTitle ==
    /\ view_pc = "called"
    /\ view_pc' = "returned"
    /\ shown' = [view |-> "title", title |-> title_of(item_data),
                 subtitle |-> subtitle_of(item_data), body |-> ""]
    /\ UNCHANGED item_data
    /\ UNCHANGED <<cfgVars, dayVars, rotVars, outVars, envVars, tickVars,
                   histVars, wrapVars, drawVars, fileVars>>

\* _display_content lays out the title and the description of the entry
DisplayContent ==
    /\ view_pc = "called"
    /\ view_pc' = "returned"
    /\ shown' = [view |-> "content", title |-> title_of(item_data),
                 subtitle |-> "", body |-> description_of(item_data)]
    /\ UNCHANGED item_data
    /\ UNCHANGED <<cfgVars, dayVars, rotVars, outVars, envVars, tickVars,
                   histVars, wrapVars, drawVars, fileVars>>

\* a view is about to be laid out for any entry of the model
ViewCalled ==
    /\ view_pc = "called"
    /\ item_data \in Entries
    /\ shown = NothingShown

InitView ==
    /\ Constructed(<<"a", "b", "c">>,
                   [c \in Cats |-> [enabled |-> TRUE, data_file |-> c]],
                   2, 2, 1,
                   [c \in Cats |-> [status |-> "missing", data |-> EmptyDict]])
    /\ WrapIdle
    /\ DrawIdle
    /\ ViewCalled
    /\ NoSection

NextView == DisplayTitle \/ DisplayContent

SpecView == InitView /\ [][NextView]_vars

\* the value of the first field of chain that the entry has, or default
FirstPresent(item, chain, default) ==
    IF \E i \in 1 .. Len(chain) : chain[i] \in DOMAIN item
    THEN item[chain[CHOOSE i \in 1 .. Len(chain) :
                       /\ chain[i] \in DOMAIN item
                       /\ \A j \in 1 .. (i - 1) : chain[j] \notin DOMAIN item]]
    ELSE default

\* C20: the title is the value of 'title', else of 'word'; the subtitle of
\* the title view is the value of 'subtitle', else 'pronunciation', else
\* 'type'; the body of the content view is the value of 'description', else
\* 'definition', else 'content', else 'text', else "No content": the first
\* field present wins, whatever its value.
C20_FieldFallback ==
    view_pc = "returned" =>
       /\ shown.title = FirstPresent(item_data, <<"title", "word">>, "N/A")
       /\ shown.view = "title" =>
             shown.subtitle =
                FirstPresent(item_data,
                             <<"subtitle", "pronunciation", "type">>, "")
       /\ shown.view = "content" =>
             shown.body =
                FirstPresent(item_data,
                             <<"description", "definition", "content",
                               "text">>, "No content")

\* C20 witness: the content view of an entry without 'title' and
\* 'description', whose 'definition' is empty and whose 'content' is not
C20_Witness ==
    /\ view_pc = "returned"
    /\ shown.view = "content"
    /\ DOMAIN item_data = {"word", "definition", "content"}
    /\ item_data["definition"] = ""
    /\ item_data["content"] = "content"
    /\ shown.title = "word"
    /\ shown.body = ""

----------------------------------------------------------------------------
(* The configuration scripts (scripts/update_config.py and
   scripts/toggle_category.py).  Each run loads config.json, changes the
   'of-the-day' section and saves the file. *)

\* the category names the scripts are run with ("" is a missing name)
Names == {"x", "y", "z"}

\* the 'enabled' parameter of toggle_category
EnabledParams == {"absent", "true", "false"}

\* config.get('of-the-day', {})
plugin_config_of(config) == Get(config, "of-the-day", EmptyDict)

\* plugin_config.get('categories', {})
categories_of(config) == Get(plugin_config_of(config), "categories", EmptyDict)

\* plugin_config.get('category_order', [])
category_order_of(config) ==
    Get(plugin_config_of(config), "category_order", <<>>)

\* name in seq
In(name, seq) == \E i \in 1 .. Len(seq) : seq[i] = name

\* d[key] = value
Put(d, key, value) ==
    [k \in DOMAIN d \cup {key} |-> IF k = key THEN value ELSE d[k]]

\* del d[key]
Del(d, key) == [k \in DOMAIN d \ {key} |-> d[k]]

\* list.remove(name): seq without the first occurrence of name
list_remove(seq, name) ==
    LET first == CHOOSE i \in 1 .. Len(seq) :
                    /\ seq[i] = name
                    /\ \A j \in 1 .. (i - 1) : seq[j] # name
    IN  SubSeq(seq, 1, first - 1) \o SubSeq(seq, first + 1, Len(seq))

\* config['of-the-day'] = plugin_config
WithSection(config, cats, order) ==
    Put(config, "of-the-day", [categories |-> cats, category_order |-> order])

\* (mutant) category_order.append without the test for the name
added_category_appending(config, category_name) ==
    WithSection(config,
                Put(categories_of(config), category_name,
                    [enabled |-> TRUE, data_file |-> category_name,
                     display_name |-> category_name]),
                Append(category_order_of(config), category_name))

\* the configuration add_category_to_config saves
added_category(config, category_name) ==
    WithSection(config,
                Put(categories_of(config), category_name,
                    [enabled |-> TRUE, data_file |-> category_name,
                     display_name |-> category_name]),
                IF In(category_name, category_order_of(config))
                THEN category_order_of(config)
                ELSE Append(category_order_of(config), category_name))

\* add_category_to_config(category_name, data_file, display_name)
add_category_to_config(category_name) ==
    /\ config_json' = added_category(config_json, category_name)
    /\ script_run' = [op |-> "add", category_name |-> category_name,
                      status |-> "none"]

\* remove_category_from_config(category_name)
remove_category_from_config(category_name) ==
    /\ IF DOMAIN plugin_config_of(config_json) = {}
       THEN UNCHANGED config_json
       ELSE config_json' =
               WithSection(config_json,
                           IF category_name \in DOMAIN categories_of(config_json)
                           THEN Del(categories_of(config_json), category_name)
                           ELSE categories_of(config_json),
                           IF In(category_name, category_order_of(config_json))
                           THEN list_remove(category_order_of(config_json),
                                            category_name)
                           ELSE category_order_of(config_json))
    /\ script_run' = [op |-> "remove", category_name |-> category_name,
                      status |-> "none"]

\* toggle_category.py run with category_name and the 'enabled' parameter
toggle_category(category_name, enabled) ==
    LET cats == categories_of(config_json)
        run(status) == [op |-> "toggle", category_name |-> category_name,
                        status |-> status]
    IN  IF category_name = "" \/ category_name \notin DOMAIN cats
        THEN /\ script_run' = run("error")
             /\ UNCHANGED config_json
        ELSE LET new_enabled ==
                    IF enabled # "absent" THEN enabled = "true"
                    ELSE ~Get(cats[category_name], "enabled", TRUE)
             IN  /\ config_json' =
                       WithSection(config_json,
                                   Put(cats, category_name,
                                       Put(cats[category_name], "enabled",
                                           new_enabled)),
                                   category_order_of(config_json))
                 /\ script_run' = run("success")

PluginUntouched ==
    UNCHANGED <<cfgVars, dayVars, rotVars, outVars, envVars, tickVars,
                histVars, wrapVars, drawVars, viewVars>>

AddCategory ==
    \E name \in Names : add_category_to_config(name) /\ PluginUntouched

RemoveCategory ==
    \E name \in Names : remove_category_from_config(name) /\ PluginUntouched

ToggleCategory ==
    \E name \in Names \cup {""}, enabled \in EnabledParams :
       toggle_category(name, enabled) /\ PluginUntouched

InitScripts ==
    /\ Constructed(<<"a", "b", "c">>,
                   [c \in Cats |-> [enabled |-> TRUE, data_file |-> c]],
                   2, 2, 1,
                   [c \in Cats |-> [status |-> "missing", data |-> EmptyDict]])
    /\ WrapIdle
    /\ DrawIdle
    /\ ViewIdle
    /\ NoSection

NextScripts == AddCategory \/ RemoveCategory \/ ToggleCategory

SpecScripts == InitScripts /\ [][NextScripts]_vars

\* a step of toggle_category.py run with category_name
ToggleStep(name) ==
    \E enabled \in EnabledParams : toggle_category(name, enabled)

\* C23: category_order has no name twice and its names are the keys of
\* categories; a run of toggle_category leaves the keys of categories and
\* category_order as they were; a run with a name that is not a key of
\* categories reports an error and leaves config.json as it was.
C23_OrderMatchesCategories ==
    /\ [](LET order == category_order_of(config_json) IN
          /\ \A i, j \in 1 .. Len(order) : i # j => order[i] # order[j]
          /\ {order[i] : i \in 1 .. Len(order)}
                = DOMAIN categories_of(config_json))
    /\ [][\A name \in Names \cup {""} :
            ToggleStep(name)
               => /\ DOMAIN categories_of(config_json')
                        = DOMAIN categories_of(config_json)
                  /\ category_order_of(config_json')
                        = category_order_of(config_json)
                  /\ name \notin DOMAIN categories_of(config_json)
                        => /\ script_run'.status = "error"
                           /\ config_json' = config_json]_vars

\* C23 witness: a category was added, removed and added again behind
\* another one, which was disabled, and a toggle of an unknown category
\* has just reported an error
C23_Witness ==
    /\ category_order_of(config_json) = <<"y", "x">>
    /\ categories_of(config_json)["y"].enabled = FALSE
    /\ categories_of(config_json)["x"].enabled = TRUE
    /\ script_run = [op |-> "toggle", category_name |-> "z",
                     status |-> "error"]

====
